---- MODULE Spec2Model ----
(***************************************************************************)
(* Fake News Detector API (src/app.py, src/start.py, src/train_model.py).  *)
(*                                                                         *)
(* Numbers.  Python floats are modelled as exact fixed-point integers:     *)
(*   similarity, simWeight, margin, raw_score : units of 1/One             *)
(*   factor                                   : units of 1/One^2           *)
(*   adjusted_score                           : units of 1/One^3           *)
(*   probabilities, probThreshold             : units of 1/ProbOne         *)
(* Texts are sequences of tokens: a word, or SP (a run of whitespace).     *)
(* A formatted result string is a record [msg, arg]: the f-string's fixed  *)
(* part and the value formatted into it.                                   *)
(***************************************************************************)
EXTENDS Integers, Sequences, FiniteSets, TLC

VARIABLES
  phase,                 \* "boot" | "serving" | "exited": position of the process
  host,                  \* the machine: model files present, libraries installed, keys set
  MODEL_LOADED,          \* app.py:65/69
  has_predict_proba,     \* hasattr(model, "predict_proba") of the unpickled model
  REQUESTS_AVAILABLE,    \* app.py:29/32
  TRANSLATOR_AVAILABLE,  \* app.py:38/41
  BS4_AVAILABLE,         \* app.py:47/50
  SERPAPI_KEY,           \* app.py:59 (truthiness)
  GEMINI_READY,          \* app.py:78/82/85
  cache,                 \* lru_cache of safe_fetch_headlines, least recently used first
  pending,               \* what a direct caller of the functions is about to do
  last,                  \* the last safe_analyze_news / safe_fetch_headlines call, traced
  resp                   \* the last HTTP response of the service

vars == <<phase, host, MODEL_LOADED, has_predict_proba, REQUESTS_AVAILABLE,
          TRANSLATOR_AVAILABLE, BS4_AVAILABLE, SERPAPI_KEY, GEMINI_READY,
          cache, pending, last, resp>>

globals == <<MODEL_LOADED, has_predict_proba, REQUESTS_AVAILABLE,
             TRANSLATOR_AVAILABLE, BS4_AVAILABLE, SERPAPI_KEY, GEMINI_READY>>

(***************************************************************************)
(* Arithmetic                                                              *)
(***************************************************************************)
One == 4
ProbOne == 10000
MathExpMax == 2840
SigmoidOneAt == 147

Max(a, b) == IF a >= b THEN a ELSE b
Min(a, b) == IF a <= b THEN a ELSE b
Abs(x) == IF x < 0 THEN -x ELSE x

\* 1/(1+exp(-k/4)) in units of 1/ProbOne, k = 0..24
SigmoidTable == <<5000, 5622, 6225, 6792, 7311, 7773, 8176, 8520, 8808, 9047,
                  9241, 9399, 9526, 9627, 9707, 9770, 9820, 9859, 9890, 9914,
                  9933, 9948, 9959, 9968, 9975>>

\* math.exp(y) raises OverflowError above 709.78; y in units of 1/One
ExpOverflows(y) == y >= MathExpMax

\* 1.0 / (1.0 + math.exp(-x)), x in units of 1/One.  Beyond the table the float
\* is strictly below 1.0 until 1.0 + exp(-x) rounds to 1.0 (x > 36.74).
SigmoidPos(k) ==
  IF k + 1 <= Len(SigmoidTable) THEN SigmoidTable[k + 1]
  ELSE IF k >= SigmoidOneAt THEN ProbOne ELSE ProbOne - 1

Sigmoid(x) == IF x >= 0 THEN SigmoidPos(x) ELSE ProbOne - SigmoidPos(-x)

\* a value in units of 1/One^3 on the 1/One grid
ToOne(x) == x \div (One * One)

(***************************************************************************)
(* Texts and result strings                                                *)
(***************************************************************************)
SP == " "

Str(m, a) == [msg |-> m, arg |-> a]
Empty == Str("", "")

\* text.split()
Split(text) == SelectSeq(text, LAMBDA t : t # SP)

RECURSIVE Join(_)
\* " ".join(words)
Join(words) ==
  IF Len(words) = 0 THEN << >>
  ELSE IF Len(words) = 1 THEN words
  ELSE <<Head(words), SP>> \o Join(Tail(words))

\* not text or not text.strip()
IsBlank(text) == text = << >> \/ Split(text) = << >>

\* " ".join(translated.split()[:5])
FirstFiveWords(text) ==
  LET w == Split(text) IN Join(SubSeq(w, 1, Min(5, Len(w))))

(***************************************************************************)
(* The model artifact (src/train_model.py) and the class labels            *)
(***************************************************************************)
model_classes == <<"FAKE", "REAL">>

\* model_classes[1] if len(model_classes) > 1 else model_classes[0]
DefaultPositive ==
  IF Len(model_classes) > 1 THEN model_classes[2] ELSE model_classes[1]

InClasses(l) == \E i \in DOMAIN model_classes : model_classes[i] = l

\* model_classes.index(l), 0-based as in the source
ClassIndex(l) == (CHOOSE i \in DOMAIN model_classes : model_classes[i] = l) - 1

(***************************************************************************)
(* safe_fetch_headlines and its lru_cache                                  *)
(***************************************************************************)
maxsize == 256

Placeholders ==
  {"(No query provided)",
   "(Headlines unavailable: requests library not available)",
   "(Headlines unavailable: missing SERPAPI_KEY environment variable)",
   "(Headlines unavailable: request timeout)",
   "(Headlines unavailable: network error)",
   "(Headlines unavailable: malformed response)",
   "(No matching headlines)",
   "(Headlines disabled)"}

\* headlines.startswith("(")
StartsWithParen(h) == h \in Placeholders

\* The undecorated function body: the text returned and whether requests.get ran.
\* net is what the search API does with this request.
FetchBody(query, net) ==
  IF IsBlank(query) THEN [value |-> "(No query provided)", sent |-> FALSE]
  ELSE IF ~REQUESTS_AVAILABLE THEN
    [value |-> "(Headlines unavailable: requests library not available)", sent |-> FALSE]
  ELSE IF ~SERPAPI_KEY THEN
    [value |-> "(Headlines unavailable: missing SERPAPI_KEY environment variable)",
     sent |-> FALSE]
  ELSE
    [value |-> CASE net.outcome = "ok"        -> net.headlines
                 [] net.outcome = "empty"     -> "(No matching headlines)"
                 [] net.outcome = "timeout"   -> "(Headlines unavailable: request timeout)"
                 [] net.outcome = "error"     -> "(Headlines unavailable: network error)"
                 [] OTHER                     -> "(Headlines unavailable: malformed response)",
     sent |-> TRUE]

InCache(c, q) == \E i \in DOMAIN c : c[i].q = q
CacheIndex(c, q) == CHOOSE i \in DOMAIN c : c[i].q = q
Remove(c, i) == SubSeq(c, 1, i - 1) \o SubSeq(c, i + 1, Len(c))

\* The key functools.lru_cache drops when a miss finds the cache full: the
\* oldest link of its list (root.next), the least recently used one.
LruVictimMRU(c) == Len(c)
LruVictim(c) == 1

\* A hit moves the entry to the most recently used end.
LruTouchKeep(c, i) == c
LruTouch(c, i) == Remove(c, i) \o <<c[i]>>

\* safe_fetch_headlines(query), decorated: value returned, cache afterwards,
\* whether the search API was called, and the key evicted if any.
safe_fetch_headlines(query, net) ==
  IF InCache(cache, query) THEN
    [value |-> cache[CacheIndex(cache, query)].v,
     cache |-> LruTouch(cache, CacheIndex(cache, query)),
     sent |-> FALSE, hit |-> TRUE, full |-> FALSE, evicted |-> << >>]
  ELSE
    LET b == FetchBody(query, net)
        full == Len(cache) >= maxsize
        v == LruVictim(cache)
    IN [value |-> b.value,
        cache |-> (IF full THEN Remove(cache, v) ELSE cache)
                    \o <<[q |-> query, v |-> b.value]>>,
        sent |-> b.sent, hit |-> FALSE, full |-> full,
        evicted |-> IF full THEN <<cache[v].q>> ELSE << >>]

(***************************************************************************)
(* safe_explain_prediction, safe_extract_url_text                          *)
(***************************************************************************)
\* how is what the model and vectorizer expose: "terms", "none" (no active
\* token), "unsupported" (no coef_), "error" (an exception in the try)
safe_explain_prediction(how) ==
  IF ~MODEL_LOADED THEN Str("(Explainability unavailable: model not loaded)", "")
  ELSE CASE how = "unsupported" -> Str("(Explainability unavailable for this model type)", "")
         [] how = "error"       -> Str("(Explainability error)", "")
         [] how = "none"        -> Str("Top contributing terms:",
                                       "(No strong token contributions detected)")
         [] OTHER               -> Str("Top contributing terms:", "terms")

ExtractedText == <<"aliens", SP, "spotted", SP, "in", SP, "new", SP, "york", SP, "today">>
NoTextExtracted == <<"(!)", SP, "No", SP, "text", SP, "extracted", SP, "from", SP, "URL">>
UrlFetchTimeout == <<"(x)", SP, "URL", SP, "fetch", SP, "timeout">>
UrlFetchError == <<"(x)", SP, "URL", SP, "fetch", SP, "error:">>
UrlProcessingError == <<"(x)", SP, "URL", SP, "processing", SP, "error:">>
InstallRequests == <<"(Install", SP, "requests", SP, "library", SP, "for", SP, "URL", SP,
                     "scraping)">>
InstallBs4 == <<"(Install", SP, "beautifulsoup4", SP, "for", SP, "URL", SP, "scraping)">>

\* The strings safe_extract_url_text returns in place of page text; "(!)" and
\* "(x)" stand for the warning-sign and cross-mark characters of the source.
UrlPlaceholders ==
  {NoTextExtracted, UrlFetchTimeout, UrlFetchError, UrlProcessingError,
   InstallRequests, InstallBs4}

\* page is what fetching and parsing the URL does: "ok", "notext", "timeout",
\* "error" (RequestException), "crash" (any other exception)
safe_extract_url_text(url, page) ==
  IF IsBlank(url) THEN << >>
  ELSE IF ~REQUESTS_AVAILABLE THEN InstallRequests
  ELSE IF ~BS4_AVAILABLE THEN InstallBs4
  ELSE CASE page = "ok"      -> ExtractedText
         [] page = "notext"  -> NoTextExtracted
         [] page = "timeout" -> UrlFetchTimeout
         [] page = "error"   -> UrlFetchError
         [] OTHER            -> UrlProcessingError

(***************************************************************************)
(* safe_analyze_news                                                       *)
(***************************************************************************)
TextFr == <<"extraterrestres", SP, "vus">>
TextEn == <<"aliens", SP, "seen">>

\* GoogleTranslator(source="auto", target="en").translate(text)
English(text) == IF text = TextFr THEN TextEn ELSE text

\* Translation (lines 221-228): a failing translator falls back to the text.
TranslateReraise(text, disable_translation, outcome) ==
  IF disable_translation \/ ~TRANSLATOR_AVAILABLE THEN [raised |-> FALSE, text |-> text]
  ELSE IF outcome = "fail" THEN [raised |-> TRUE, text |-> text]
  ELSE [raised |-> FALSE, text |-> English(text)]
Translate(text, disable_translation, outcome) ==
  IF disable_translation \/ ~TRANSLATOR_AVAILABLE THEN [raised |-> FALSE, text |-> text]
  ELSE IF outcome = "fail" THEN [raised |-> FALSE, text |-> text]
  ELSE [raised |-> FALSE, text |-> English(text)]

\* Score adjustment (lines 264-268): factor, in units of 1/One^2.
FactorAdds(sim_avail, sim_value, sim_weight) ==
  IF sim_avail
  THEN LET sim_clamped == Max(0, Min(One, sim_value))
       IN One * One + sim_weight * (One - sim_clamped)
  ELSE One * One
Factor(sim_avail, sim_value, sim_weight) ==
  IF sim_avail
  THEN LET sim_clamped == Max(0, Min(One, sim_value))
       IN One * One - sim_weight * (One - sim_clamped)
  ELSE One * One

\* `import math` runs only in the branch without predict_proba (line 282) and
\* binds a local name of the function: with predict_proba it is unbound.
MathBound == ~has_predict_proba

\* Is pos_label the class the sigmoid is the probability of (lines 284, 290).
IsSigmoidClass(pos_label) == pos_label = DefaultPositive

\* Probability computation (lines 272-297): avail is FALSE where the except
\* clause sets prob_raw = prob_adj = None.
Probability(raw_score, adjusted_score, positive_label, proba) ==
  LET pos_label == IF positive_label # "" THEN positive_label ELSE DefaultPositive
      pos_index == IF InClasses(pos_label) THEN ClassIndex(pos_label) ELSE 1
      none == [avail |-> FALSE, raw |-> 0, adj |-> 0]
      adj == ToOne(adjusted_score)
  IN IF has_predict_proba
     THEN \* line 289 reads math
          IF ~MathBound THEN none
          ELSE [avail |-> TRUE, raw |-> proba[pos_index + 1],
                adj |-> IF IsSigmoidClass(pos_label) THEN Sigmoid(adj)
                        ELSE ProbOne - Sigmoid(adj)]
     ELSE IF ExpOverflows(-raw_score) \/ ExpOverflows(-adj) THEN none
     ELSE [avail |-> TRUE,
           raw |-> IF IsSigmoidClass(pos_label) THEN Sigmoid(raw_score)
                   ELSE ProbOne - Sigmoid(raw_score),
           adj |-> IF IsSigmoidClass(pos_label) THEN Sigmoid(adj)
                   ELSE ProbOne - Sigmoid(adj)]

\* line 302
OtherLabel(positive_label) ==
  IF (IF positive_label # "" THEN positive_label ELSE DefaultPositive) # model_classes[1]
  THEN model_classes[1]
  ELSE (IF Len(model_classes) > 1 THEN model_classes[2] ELSE model_classes[1])

\* line 303
ChosenPositive(positive_label) ==
  IF positive_label # "" THEN positive_label ELSE DefaultPositive

\* lines 305-308
Decide(prob, adjusted_score, positive_label, prob_threshold) ==
  IF prob.avail
  THEN (IF prob.adj >= prob_threshold THEN ChosenPositive(positive_label)
        ELSE OtherLabel(positive_label))
  ELSE (IF adjusted_score >= 0 THEN ChosenPositive(positive_label)
        ELSE OtherLabel(positive_label))

\* lines 310-311
InDeadband(adjusted_score, margin) == Abs(adjusted_score) < margin * One * One

\* Final decision (lines 299-311)
FinalLabel(prob, adjusted_score, positive_label, prob_threshold, margin) ==
  IF InDeadband(adjusted_score, margin) THEN "UNSURE"
  ELSE Decide(prob, adjusted_score, positive_label, prob_threshold)

\* A return of an error message and five empty strings.
ErrTuple(m) == <<Str(m, ""), Empty, Empty, Empty, Empty, Empty>>

NoProb == [avail |-> FALSE, raw |-> 0, adj |-> 0]

\* The trace of a call that has not got anywhere yet.
Trace0(a, o) ==
  [called |-> TRUE, fn |-> "safe_analyze_news", args |-> a, env |-> o,
   reached |-> FALSE, result |-> << >>, translated |-> << >>,
   looked |-> FALSE, query |-> << >>, headlines |-> "", hit |-> FALSE,
   sent |-> FALSE, full |-> FALSE, evicted |-> << >>, cache |-> cache,
   sim_avail |-> FALSE, sim_value |-> 0, factor |-> 0, raw_score |-> 0,
   adjusted_score |-> 0, prob |-> NoProb, final_label |-> ""]

\* Lines 244-339, once vectorization and prediction have succeeded.
AnalyzeScored(a, o, translated) ==
  LET raw_score == o.raw_score
      query == FirstFiveWords(translated)
      f == safe_fetch_headlines(query, o.net)
      headlines == IF a.use_headlines THEN f.value ELSE "(Headlines disabled)"
      \* Similarity calculation (lines 247-262)
      sim_tried == a.use_headlines /\ headlines # "" /\ ~StartsWithParen(headlines)
      sim_avail == sim_tried /\ o.sim_ok
      sim_value == IF sim_avail THEN o.sim_value ELSE 0
      factor == Factor(sim_avail, sim_value, a.sim_weight)
      adjusted_score == raw_score * factor
      prob == Probability(raw_score, adjusted_score, a.positive_label, o.proba)
      final_label == FinalLabel(prob, adjusted_score, a.positive_label,
                                a.prob_threshold, a.margin)
      gemini_response ==
        IF a.use_gemini /\ GEMINI_READY
        THEN (IF o.gemini = "ok" THEN "response" ELSE "Gemini Error")
        ELSE "(Gemini disabled or unavailable)"
      explanation == safe_explain_prediction(o.explain)
  IN [Trace0(a, o) EXCEPT
        !.reached = TRUE,
        !.translated = translated,
        !.looked = a.use_headlines,
        !.query = IF a.use_headlines THEN query ELSE << >>,
        !.headlines = headlines,
        !.hit = a.use_headlines /\ f.hit,
        !.sent = a.use_headlines /\ f.sent,
        !.full = a.use_headlines /\ f.full,
        !.evicted = IF a.use_headlines THEN f.evicted ELSE << >>,
        !.cache = IF a.use_headlines THEN f.cache ELSE cache,
        !.sim_avail = sim_avail,
        !.sim_value = sim_value,
        !.factor = factor,
        !.raw_score = raw_score,
        !.adjusted_score = adjusted_score,
        !.prob = prob,
        !.final_label = final_label,
        !.result =
          <<Str("Prediction:", final_label),
            Str("Confidence (raw/adj):",
                IF prob.avail THEN "Prob (raw/adj) | thr" ELSE ""),
            Str("Headlines:", headlines),
            Str("Gemini Insight:", gemini_response),
            explanation,
            Str("Cosine similarity:", IF sim_avail THEN "value" ELSE "N/A")>>]

\* safe_analyze_news(text, use_headlines, use_gemini, margin, sim_weight,
\*                   positive_label, prob_threshold, disable_translation)
\* a: the arguments; o: what the translator, the vectorizer, the classifier, the
\* search API and Gemini do during this call.
safe_analyze_news(a, o) ==
  IF IsBlank(a.text)
  THEN [Trace0(a, o) EXCEPT !.result = ErrTuple("Please enter news content.")]
  ELSE IF ~MODEL_LOADED
  THEN [Trace0(a, o) EXCEPT !.result = ErrTuple("Model not available. Check model files.")]
  ELSE
    LET tr == Translate(a.text, a.disable_translation, o.translate)
    IN IF tr.raised
       THEN [Trace0(a, o) EXCEPT !.result = ErrTuple("Analysis error")]
       ELSE IF o.vectorize = "fail"
       THEN [Trace0(a, o) EXCEPT !.translated = tr.text,
                                  !.result = ErrTuple("Text processing error")]
       ELSE IF o.predict = "fail"
       THEN [Trace0(a, o) EXCEPT !.translated = tr.text,
                                  !.result = ErrTuple("Prediction error")]
       ELSE AnalyzeScored(a, o, tr.text)

(***************************************************************************)
(* The HTTP surface                                                        *)
(***************************************************************************)
\* The exception classes `except Exception` catches (line 383): fastapi's
\* HTTPException derives from Exception.
ExceptionSubclasses == {"HTTPException", "ValueError", "RuntimeError"}
Catches(exc) == exc \in ExceptionSubclasses

\* NewsAnalysisResponse(success=False, ...) of the except clause (lines 385-391);
\* str(HTTPException) is "<status_code>: <detail>".
FailureResponse(err) ==
  [status |-> 200, success |-> FALSE, result |-> << >>,
   model_loaded |-> MODEL_LOADED, gemini_ready |-> GEMINI_READY, error |-> err]

\* What the framework answers when HTTPException(status_code=400) leaves the handler.
HttpError400 ==
  [status |-> 400, success |-> FALSE, result |-> << >>,
   model_loaded |-> MODEL_LOADED, gemini_ready |-> GEMINI_READY,
   error |-> "No text content provided"]

NoCall == [called |-> FALSE, fn |-> "", reached |-> FALSE, cache |-> cache]

\* Lines 357-359: the text the handler goes on with.
RequestText(request, page) ==
  IF request.url # << >> /\ request.text = << >>
  THEN safe_extract_url_text(request.url, page)
  ELSE request.text

\* analyze_news(request): the response and the trace of its safe_analyze_news call.
analyze_news(request, o, page) ==
  LET text == RequestText(request, page)
  IN IF text = << >>
     THEN \* raise HTTPException(status_code=400, ...) inside the try
          [resp |-> IF Catches("HTTPException")
                    THEN FailureResponse("400: No text content provided")
                    ELSE HttpError400,
           extracted |-> text,
           trace |-> NoCall]
     ELSE LET r == safe_analyze_news(
                     [text |-> text,
                      use_headlines |-> request.useHeadlines,
                      use_gemini |-> request.useGemini,
                      margin |-> request.margin,
                      sim_weight |-> request.simWeight,
                      positive_label |-> request.positiveLabel,
                      prob_threshold |-> request.probThreshold,
                      disable_translation |-> request.disableTranslation], o)
          IN [resp |-> [status |-> 200, success |-> TRUE, result |-> r.result,
                        model_loaded |-> MODEL_LOADED, gemini_ready |-> GEMINI_READY,
                        error |-> ""],
              extracted |-> text,
              trace |-> r]

\* root() and health_check()
health_check ==
  [status |-> 200, success |-> TRUE, result |-> << >>,
   model_loaded |-> MODEL_LOADED, gemini_ready |-> GEMINI_READY, error |-> ""]

(***************************************************************************)
(* Startup: src/start.py main() and the module-level code of src/app.py    *)
(***************************************************************************)
\* start.py lines 15-31: the checks that end in sys.exit(1)
ScriptRefuses(h) == ~h.model_dir \/ ~h.clf_file \/ ~h.vec_file

\* app.py lines 62-71: joblib.load of both files inside one try
ModelLoads(h) == h.model_dir /\ h.clf_file /\ h.vec_file

\* Importing app.py on host h: lines 17-99.
ImportApp(h) ==
  /\ MODEL_LOADED' = ModelLoads(h)
  /\ has_predict_proba' = (ModelLoads(h) /\ h.proba)
  /\ REQUESTS_AVAILABLE' = h.requests
  /\ TRANSLATOR_AVAILABLE' = h.translator
  /\ BS4_AVAILABLE' = h.bs4
  /\ SERPAPI_KEY' = h.serp_key
  /\ GEMINI_READY' = (h.genai /\ h.google_key)

NoResp == [status |-> 0, success |-> FALSE, result |-> << >>, model_loaded |-> FALSE,
           gemini_ready |-> FALSE, error |-> "", kind |-> "none"]
NoPending == [kind |-> "none"]

\* python start.py
StartScript ==
  /\ phase = "boot"
  /\ IF ScriptRefuses(host)
     THEN phase' = "exited" /\ UNCHANGED globals
     ELSE phase' = "serving" /\ ImportApp(host)
  /\ UNCHANGED <<host, cache, pending, last, resp>>

\* python app.py, or uvicorn app:app
StartApp ==
  /\ phase = "boot"
  /\ phase' = "serving"
  /\ ImportApp(host)
  /\ UNCHANGED <<host, cache, pending, last, resp>>

(***************************************************************************)
(* Requests to the running service                                         *)
(***************************************************************************)
Url == <<"http://news.example/a">>
Headlines == "- Aliens spotted over New York"

\* Request bodies a client sends (NewsAnalysisRequest, lines 118-127): text and
\* url vary, the tuning fields keep their defaults.
Requests ==
  [text : {<< >>, <<SP>>, TextEn}, url : {<< >>, Url},
   useHeadlines : BOOLEAN, useGemini : {TRUE},
   margin : {One \div 2}, simWeight : {One \div 2},
   positiveLabel : {"REAL"}, probThreshold : {(ProbOne * 6) \div 10},
   disableTranslation : {FALSE}]

\* What fetching the page can do when the handler extracts text from the url.
Pages(request) ==
  IF request.url # << >> /\ request.text = << >> /\ REQUESTS_AVAILABLE /\ BS4_AVAILABLE
  THEN {"ok", "notext", "timeout", "error"}
  ELSE {"ok"}

\* A run in which every collaborator answers.
NominalEnv ==
  [translate |-> "ok", vectorize |-> "ok", predict |-> "ok", raw_score |-> 2 * One,
   net |-> [outcome |-> "ok", headlines |-> Headlines],
   sim_ok |-> TRUE, sim_value |-> One \div 2, proba |-> <<ProbOne \div 5, (ProbOne * 4) \div 5>>,
   gemini |-> "ok", explain |-> "terms"]

\* POST /analyze
AnalyzeRequest ==
  /\ phase = "serving"
  /\ \E request \in Requests :
       \E page \in Pages(request) :
         \E out \in {analyze_news(request, NominalEnv, page)} :
            /\ resp' = [kind |-> "analyze", request |-> request, page |-> page,
                        extracted |-> out.extracted] @@ out.resp
            /\ last' = out.trace
            /\ cache' = out.trace.cache
  /\ UNCHANGED <<phase, host, globals, pending>>

\* GET / and GET /health
HealthRequest ==
  /\ phase = "serving"
  /\ resp' = [kind |-> "health"] @@ health_check
  /\ UNCHANGED <<phase, host, globals, cache, pending, last>>

\* The machines the service is started on: the model directory and files may be
\* missing, as may requests, beautifulsoup4 and the search key.  The shipped
\* model is a PassiveAggressiveClassifier (train_model.py:24): no predict_proba.
Hosts ==
  {h \in [model_dir : BOOLEAN, clf_file : BOOLEAN, vec_file : BOOLEAN,
          requests : BOOLEAN, translator : {TRUE}, bs4 : BOOLEAN,
          genai : {TRUE}, google_key : {TRUE}, serp_key : BOOLEAN, proba : {FALSE}] :
     ~h.model_dir => (~h.clf_file /\ ~h.vec_file)}

Init ==
  /\ phase = "boot"
  /\ host \in Hosts
  /\ MODEL_LOADED = FALSE
  /\ has_predict_proba = FALSE
  /\ REQUESTS_AVAILABLE = FALSE
  /\ TRANSLATOR_AVAILABLE = FALSE
  /\ BS4_AVAILABLE = FALSE
  /\ SERPAPI_KEY = FALSE
  /\ GEMINI_READY = FALSE
  /\ cache = << >>
  /\ pending = NoPending
  /\ last = NoCall
  /\ resp = NoResp

Next == StartScript \/ StartApp \/ AnalyzeRequest \/ HealthRequest

Spec == Init /\ [][Next]_vars

(***************************************************************************)
(* Direct calls of safe_analyze_news, as a unit test makes them            *)
(***************************************************************************)
\* The pending call is made once.
CallAnalyze ==
  /\ phase = "serving"
  /\ pending.kind = "analyze"
  /\ \E r \in {safe_analyze_news(pending.a, pending.o)} :
       last' = r /\ cache' = r.cache
  /\ pending' = NoPending
  /\ UNCHANGED <<phase, host, globals, resp>>

NextCall == CallAnalyze

\* A host with everything installed and configured.
FullHost ==
  [model_dir |-> TRUE, clf_file |-> TRUE, vec_file |-> TRUE, requests |-> TRUE,
   translator |-> TRUE, bs4 |-> TRUE, genai |-> TRUE, google_key |-> TRUE,
   serp_key |-> TRUE, proba |-> FALSE]

\* ---- the decision pipeline: scores, similarity, tuning parameters ----
MaxRaw == 2
HugeRaw == 1000

\* decision_function values: whole scores up to MaxRaw either side, and one
\* far enough below zero for math.exp to overflow
RawScores == {One * r : r \in -MaxRaw..MaxRaw} \cup {-(One * HugeRaw)}
\* cosine similarities 0, 0.5, 1 and one a rounding error above 1
SimValues == {0, One \div 2, One, One + 1}
\* simWeight: -0.5, 0, 0.5 (default), 1, 2, 3: the request model checks no range
SimWeights == {-(One \div 2), 0, One \div 2, One, 2 * One, 3 * One}
\* margin: 0, 0.5 (default), 1.5
Margins == {0, One \div 2, (3 * One) \div 2}
\* positiveLabel: empty, either class, a string that is no class, and "UNSURE"
PositiveLabels == {"", "REAL", "FAKE", "TRUE", "UNSURE"}
\* probThreshold: 0, 0.5, 0.6 (default), 1
ProbThresholds == {0, ProbOne \div 2, (ProbOne * 6) \div 10, ProbOne}
\* predict_proba rows [P(FAKE), P(REAL)]
Probas == {<<ProbOne \div 5, (ProbOne * 4) \div 5>>, <<(ProbOne * 7) \div 10, (ProbOne * 3) \div 10>>}

DecisionArgs ==
  [text : {TextEn}, use_headlines : {TRUE}, use_gemini : {FALSE},
   margin : Margins, sim_weight : SimWeights, positive_label : PositiveLabels,
   prob_threshold : ProbThresholds, disable_translation : {TRUE}]

DecisionEnvs(proba_used) ==
  {o \in [translate : {"ok"}, vectorize : {"ok"}, predict : {"ok"},
          raw_score : RawScores,
          net : {[outcome |-> "ok", headlines |-> Headlines]},
          sim_ok : BOOLEAN, sim_value : SimValues,
          proba : IF proba_used THEN Probas ELSE {<<ProbOne \div 2, ProbOne \div 2>>},
          gemini : {"ok"}, explain : {"terms"}] :
     ~o.sim_ok => o.sim_value = 0}

InitDecision ==
  /\ phase = "serving"
  /\ host = FullHost
  /\ MODEL_LOADED = TRUE
  /\ has_predict_proba \in BOOLEAN
  /\ REQUESTS_AVAILABLE = TRUE
  /\ TRANSLATOR_AVAILABLE = TRUE
  /\ BS4_AVAILABLE = TRUE
  /\ SERPAPI_KEY = TRUE
  /\ GEMINI_READY = TRUE
  /\ cache = << >>
  /\ pending \in {[kind |-> "analyze", a |-> a, o |-> o] :
                    a \in DecisionArgs, o \in DecisionEnvs(has_predict_proba)}
  /\ last = NoCall
  /\ resp = NoResp

SpecDecision == InitDecision /\ [][NextCall]_vars

\* ---- the dependencies: which are there, and which fail during the call ----
PipelineArgs ==
  [text : {<< >>, <<SP>>, TextFr}, use_headlines : BOOLEAN, use_gemini : BOOLEAN,
   margin : {One \div 2}, sim_weight : {One \div 2}, positive_label : {"REAL"},
   prob_threshold : {(ProbOne * 6) \div 10}, disable_translation : BOOLEAN]

\* One representative of the runs that differ only in what is never consulted.
PipelineEnvs ==
  {o \in [translate : {"ok", "fail"}, vectorize : {"ok", "fail"},
          predict : {"ok", "fail"}, raw_score : {2 * One},
          net : {[outcome |-> x, headlines |-> Headlines] :
                   x \in {"ok", "empty", "timeout", "error", "malformed"}},
          sim_ok : BOOLEAN, sim_value : {One \div 2},
          proba : {<<ProbOne \div 5, (ProbOne * 4) \div 5>>},
          gemini : {"ok", "fail"}, explain : {"terms", "unsupported", "error"}] :
     /\ o.vectorize = "fail" => o.predict = "ok"
     /\ (o.vectorize = "fail" \/ o.predict = "fail") =>
          (o.net.outcome = "ok" /\ o.sim_ok /\ o.gemini = "ok" /\ o.explain = "terms")
     /\ o.net.outcome # "ok" => o.sim_ok}

InitPipeline ==
  /\ phase = "serving"
  /\ host = FullHost
  /\ MODEL_LOADED \in BOOLEAN
  /\ has_predict_proba \in BOOLEAN
  /\ REQUESTS_AVAILABLE \in BOOLEAN
  /\ TRANSLATOR_AVAILABLE \in BOOLEAN
  /\ BS4_AVAILABLE = TRUE
  /\ SERPAPI_KEY \in BOOLEAN
  /\ GEMINI_READY \in BOOLEAN
  /\ MODEL_LOADED \/ ~has_predict_proba
  /\ cache = << >>
  /\ pending \in {[kind |-> "analyze", a |-> a, o |-> o] :
                    a \in PipelineArgs, o \in PipelineEnvs}
  /\ last = NoCall
  /\ resp = NoResp

SpecPipeline == InitPipeline /\ [][NextCall]_vars

(***************************************************************************)
(* Direct calls of safe_fetch_headlines: a long run of lookups             *)
(***************************************************************************)
MaxQueries == 257

\* The queries looked up again and again; every other query is looked up once.
HotQueries == {1}

Digit == <<"0", "1", "2", "3", "4", "5", "6", "7", "8", "9">>

\* The n-th distinct query string: the three digits of n as three words.
QueryText(n) ==
  <<Digit[((n \div 100) % 10) + 1], SP, Digit[((n \div 10) % 10) + 1], SP,
    Digit[(n % 10) + 1]>>

Headlines2 == "- Aliens deny visiting New York"

\* What the search API answers a request for query n: the news may have changed
\* when a hot query is requested again.
NetAnswers(n) ==
  IF n \in HotQueries /\ pending.hist[n].seen
  THEN {[outcome |-> "ok", headlines |-> Headlines],
        [outcome |-> "ok", headlines |-> Headlines2]}
  ELSE {[outcome |-> "ok", headlines |-> Headlines]}

\* Nothing is known yet about a hot query.
Unseen == [seen |-> FALSE, first |-> "", prev |-> "", since |-> {}]

\* The next lookup: a hot query already introduced, or the next new query.
LookupChoices ==
  {n \in HotQueries : n <= pending.issued}
    \cup (IF pending.issued < MaxQueries THEN {pending.issued + 1} ELSE {})

\* safe_fetch_headlines(QueryText(n)), called directly
FetchHeadlines ==
  /\ phase = "serving"
  /\ pending.kind = "workload"
  /\ \E n \in LookupChoices :
       \E net \in NetAnswers(n) :
         \E f \in {safe_fetch_headlines(QueryText(n), net)} :
         LET q == QueryText(n)
             h == IF n \in HotQueries THEN pending.hist[n] ELSE Unseen
         IN /\ cache' = f.cache
            /\ last' = [called |-> TRUE, fn |-> "safe_fetch_headlines", reached |-> FALSE,
                        id |-> n, query |-> q, value |-> f.value, hit |-> f.hit,
                        sent |-> f.sent, full |-> f.full, evicted |-> f.evicted,
                        size_before |-> Len(cache),
                        lru_before |-> IF cache = << >> THEN << >> ELSE <<cache[1].q>>,
                        mru_before |-> IF cache = << >> THEN << >>
                                       ELSE <<cache[Len(cache)].q>>,
                        seen_before |-> h.seen, first_value |-> h.first,
                        prev_value |-> h.prev, others_since |-> Cardinality(h.since)]
            /\ pending' =
                 [pending EXCEPT
                    !.issued = Max(@, n),
                    !.hist = [m \in HotQueries |->
                                IF m = n
                                THEN [seen |-> TRUE,
                                      first |-> IF @[m].seen THEN @[m].first ELSE f.value,
                                      prev |-> f.value, since |-> {}]
                                ELSE IF @[m].seen
                                THEN [@[m] EXCEPT !.since = @ \cup {n}]
                                ELSE @[m]]]
  /\ UNCHANGED <<phase, host, globals, resp>>

NextCache == FetchHeadlines

InitCache ==
  /\ phase = "serving"
  /\ host = FullHost
  /\ MODEL_LOADED = TRUE
  /\ has_predict_proba = FALSE
  /\ REQUESTS_AVAILABLE = TRUE
  /\ TRANSLATOR_AVAILABLE = TRUE
  /\ BS4_AVAILABLE = TRUE
  /\ SERPAPI_KEY = TRUE
  /\ GEMINI_READY = TRUE
  /\ cache = << >>
  /\ pending = [kind |-> "workload", issued |-> 0, hist |-> [m \in HotQueries |-> Unseen]]
  /\ last = NoCall
  /\ resp = NoResp

SpecCache == InitCache /\ [][NextCache]_vars

(***************************************************************************)
(* Properties of the final decision and the score adjustment               *)
(***************************************************************************)
\* The last call reached the final-decision step.
Decided == last.called /\ last.fn = "safe_analyze_news" /\ last.reached

\* |adjusted_score| < margin, from the traced values
TraceInDeadband == Abs(last.adjusted_score) < last.args.margin * One * One

\* The configured positive label: the request's, or the second class when empty.
TracePositive ==
  IF last.args.positive_label = "" THEN model_classes[2] ELSE last.args.positive_label

DeadbandYieldsUnsure ==
  Decided /\ TraceInDeadband => last.final_label = "UNSURE"

C8_LabelIsModelClass ==
  (Decided /\ ~TraceInDeadband) =>
    /\ InClasses(last.final_label)
    /\ last.prob.avail =>
         IF last.prob.adj >= last.args.prob_threshold
         THEN last.final_label = TracePositive
         ELSE last.final_label # TracePositive
    /\ ~last.prob.avail =>
         IF last.adjusted_score >= 0
         THEN last.final_label = TracePositive
         ELSE last.final_label # TracePositive

\* C9: with a native probability output the raw probability is the one at the
\* positive label's index, both probabilities are available afterwards and
\* appear in the confidence line.
C9_NativeProbabilityUsed ==
  (Decided /\ has_predict_proba) =>
    /\ last.prob.avail
    /\ last.prob.raw =
         last.env.proba[(IF InClasses(TracePositive) THEN ClassIndex(TracePositive) ELSE 1) + 1]
    /\ last.result[2].arg = "Prob (raw/adj) | thr"

(***************************************************************************)
(* Properties of the headline cache                                        *)
(***************************************************************************)
\* The last call was a direct lookup.
Fetched == last.called /\ last.fn = "safe_fetch_headlines"

\* C3 as stated: a query looked up before returns the text returned the first
\* time and triggers no network request, however many other queries came between.
C3_RepeatNeverRefetches ==
  (Fetched /\ last.seen_before) =>
    (~last.sent /\ last.value = last.first_value)

\* C3 amended: a query looked up before returns the text its previous lookup
\* returned and triggers no network request, provided fewer than maxsize other
\* distinct queries were looked up since its previous lookup.
C3_RepeatWithinCapacity ==
  (Fetched /\ last.seen_before /\ last.others_since < maxsize) =>
    (~last.sent /\ last.hit /\ last.value = last.prev_value)

\* A repeated lookup answered from the cache after maxsize - 1 other queries.
C3_Witness ==
  /\ Fetched /\ last.seen_before /\ last.others_since = maxsize - 1
  /\ ~last.sent /\ last.value = last.prev_value

\* C7 as stated: the cache holds at most maxsize queries, and an insertion
\* into the full cache evicts the most recently used entry.
C7_EvictsMostRecentlyUsed ==
  /\ Len(cache) <= maxsize
  /\ (Fetched /\ last.full) => last.evicted = last.mru_before

\* C7 amended: the cache holds at most maxsize entries, one per query, and an
\* insertion into the full cache evicts the least recently used entry.
C7_EvictsLeastRecentlyUsed ==
  /\ Len(cache) <= maxsize
  /\ Cardinality({cache[i].q : i \in DOMAIN cache}) = Len(cache)
  /\ (Fetched /\ last.full) =>
       /\ last.evicted = last.lru_before
       /\ ~InCache(cache, last.evicted[1])
       /\ Len(cache) = maxsize

\* A new query entered the full cache and the hot query, used since the oldest
\* other entry, stayed in it.
C7_Witness ==
  /\ Fetched /\ last.full /\ ~last.hit
  /\ last.size_before = maxsize
  /\ last.evicted = <<QueryText(2)>>
  /\ InCache(cache, QueryText(1))

(***************************************************************************)
(* Properties of the pipeline's failure handling and of the service        *)
(***************************************************************************)
Analyzed == last.called /\ last.fn = "safe_analyze_news"

\* The call got past translation with a usable model and text, and the
\* vectorizer and the classifier answered.
Scored ==
  /\ Analyzed /\ MODEL_LOADED /\ ~IsBlank(last.args.text)
  /\ last.env.vectorize = "ok" /\ last.env.predict = "ok"

IsStr(x) == DOMAIN x = {"msg", "arg"}

\* C4: every return is a tuple of six strings, and once the model is loaded and
\* vectorization and prediction succeed, a missing or failing dependency only
\* turns its own field into a placeholder: the label and the confidence line
\* are produced all the same.
C4_SixStringsAndSoftFailure ==
  Analyzed =>
    /\ Len(last.result) = 6
    /\ \A i \in 1..6 : IsStr(last.result[i])
    /\ Scored =>
         /\ last.reached
         /\ last.result[1].msg = "Prediction:"
         /\ last.result[1].arg \in {"FAKE", "REAL", "UNSURE"}
         /\ last.result[2].msg = "Confidence (raw/adj):"
         /\ last.result[3].msg = "Headlines:"
         /\ (last.args.use_headlines /\ (~REQUESTS_AVAILABLE \/ ~SERPAPI_KEY
                                          \/ last.env.net.outcome # "ok"))
              => (StartsWithParen(last.result[3].arg)
                  /\ last.result[6].arg = "N/A")
         /\ last.result[4].msg = "Gemini Insight:"
         /\ (last.args.use_gemini /\ ~GEMINI_READY)
              => last.result[4].arg = "(Gemini disabled or unavailable)"
         /\ (last.args.use_gemini /\ GEMINI_READY /\ last.env.gemini = "fail")
              => last.result[4].arg = "Gemini Error"
         /\ (~TRANSLATOR_AVAILABLE \/ last.env.translate = "fail")
              => last.translated = last.args.text
         /\ last.result[6].msg = "Cosine similarity:"

\* Translator failing, search key missing and Gemini not configured at once,
\* and the call still labelled the text.
C4_Witness ==
  /\ Scored /\ TRANSLATOR_AVAILABLE /\ ~last.args.disable_translation
  /\ last.env.translate = "fail"
  /\ last.args.use_headlines /\ ~SERPAPI_KEY
  /\ last.args.use_gemini /\ ~GEMINI_READY
  /\ last.env.explain = "error"
  /\ last.result[1] = Str("Prediction:", "REAL")
  /\ last.result[3].arg = "(Headlines unavailable: missing SERPAPI_KEY environment variable)"

\* C5: a request with empty text and empty url is answered with HTTP 400 and
\* the message "No text content provided".
C5_EmptyRequestGets400 ==
  (resp.kind = "analyze" /\ resp.request.text = << >> /\ resp.request.url = << >>)
    => (resp.status = 400 /\ ~resp.success /\ resp.error = "No text content provided")

\* C6: with a model file absent the service still starts, by the startup
\* script as by loading the app module, and serves in the degraded state.
C6_StartsWithoutModelFiles ==
  (phase # "boot" /\ (~host.clf_file \/ ~host.vec_file)) =>
    /\ phase = "serving"
    /\ ~MODEL_LOADED
    /\ (resp.kind \in {"analyze", "health"}) => ~resp.model_loaded
    /\ (resp.kind = "analyze" /\ Analyzed /\ ~IsBlank(last.args.text))
         => last.result[1].msg = "Model not available. Check model files."

\* C10: when text is empty and extracting the url's text fails, the
\* placeholder is not passed on as the news text to be translated, vectorized,
\* classified and used as the headline search query.
C10_PlaceholderNotAnalyzed ==
  (/\ resp.kind = "analyze" /\ resp.request.text = << >> /\ resp.request.url # << >>
   /\ resp.extracted \in UrlPlaceholders)
    => ~(/\ Analyzed /\ last.args.text = resp.extracted /\ last.reached
         /\ last.translated = resp.extracted
         /\ last.looked /\ last.query = FirstFiveWords(resp.extracted))

(***************************************************************************)
(* Orientation of the two decision paths                                   *)
(***************************************************************************)
\* The traced call is one the comparison is about: a decision outside the
\* deadband with positiveLabel one of the two classes of the model.
TraceOriented ==
  Decided /\ ~TraceInDeadband /\ InClasses(last.args.positive_label)

\* The class that is not the positive label.
TraceOther ==
  IF TracePositive = model_classes[1] THEN model_classes[2]
  ELSE model_classes[1]

\* The label the sign of the adjusted score selects.
SignLabel ==
  IF last.adjusted_score >= 0 THEN TracePositive ELSE TraceOther

\* The label the adjusted probability selects at threshold 0.5: prob_adj is
\* sigmoid(adjusted_score) for the second class, 1 - sigmoid for the first.
HalfThresholdLabel ==
  LET s == Sigmoid(ToOne(last.adjusted_score))
      prob_adj == IF TracePositive = model_classes[2] THEN s
                  ELSE ProbOne - s
  IN IF prob_adj >= ProbOne \div 2 THEN TracePositive ELSE TraceOther

\* C11: outside the deadband and for positiveLabel either class of the model,
\* the sign-based fallback selects the label the probability-based decision
\* selects at probThreshold = 0.5: a call that fell back to the sign returns
\* the probability path's label, and a call decided by the probability at
\* threshold 0.5 returns the sign path's label.
C11_FallbackAgreesWithProbability ==
  TraceOriented =>
    /\ ~last.prob.avail => last.final_label = HalfThresholdLabel
    /\ (last.prob.avail /\ last.args.prob_threshold = ProbOne \div 2)
         => last.final_label = SignLabel

\* The part of C11 the code keeps: with the second class (or no positiveLabel,
\* which defaults to it) as the positive label the two paths agree.
SecondClassPathsAgree ==
  (Decided /\ ~TraceInDeadband /\ TracePositive = model_classes[2]) =>
    /\ ~last.prob.avail => last.final_label = HalfThresholdLabel
    /\ (last.prob.avail /\ last.args.prob_threshold = ProbOne \div 2)
         => last.final_label = SignLabel

====
